---------------------------- MODULE Spec2Model ----------------------------
(***************************************************************************)
(* Model of app.py, the corner-weight scaling application: the setups      *)
(* table, the Flask session with its PIN lockout, and the request          *)
(* handlers index, submit, delete, update, login and logout.               *)
(*                                                                         *)
(* Numbers.  A Python float that came from a form field is modelled by the *)
(* integer count of hundredths it denotes (form fields are decimal         *)
(* numerals with at most two fraction digits, the empty string, text that  *)
(* float() rejects, or missing).  Each stored column keeps its own unit:   *)
(*   lf rf lr rr, t_*, total, cross_pct, left_pct, rear_pct : 1/100        *)
(*   fuel_lbs : 1/10      wt_per_turn : 1/10^4    fuel_sensitivity : 1/10^5*)
(* round(x, k) is round-half-even on the exact quotient.  The literals     *)
(* "nan" and "inf", which float() also accepts, are outside the input sets.*)
(* The columns p_lf..p_rr, adjustment_notes, sway_bar and is_baseline are  *)
(* copied from the form by submit and update and read by no computation;   *)
(* they are left out of the rows.                                          *)
(*                                                                         *)
(* Time.  now is the wall clock in minutes; the date column                *)
(* strftime("%Y-%m-%d %H:%M") orders as the minute count does, so a date   *)
(* is modelled by that count.                                              *)
(***************************************************************************)
EXTENDS Integers, Sequences, FiniteSets, TLC

VARIABLES
    store,      \* the setups table: its rows in insertion (rowid) order
    now,        \* datetime.now(), in minutes
    session,    \* the Flask session of the browser
    pending,    \* submit requests that have read last_run and not yet inserted
    resp        \* the response to the last request

vars == <<store, now, session, pending, resp>>

-----------------------------------------------------------------------------
(* Bounds *)

MaxRows == 2        \* rows the table may hold
MaxMinute == 2      \* last minute of the clock in Spec and SpecConc
MaxClock == 35      \* last minute of the clock in SpecAuth

-----------------------------------------------------------------------------
(* Configuration, app.py lines 19-23 *)

FUEL_DENSITY == 62          \* 6.2 lb per gallon, in tenths
MAX_ATTEMPTS == 3
LOCKOUT_TIME == 30

\* users.txt as get_users writes it when the file is missing
get_users == [u \in {"Admin", "Driver"} |-> IF u = "Admin" THEN "0000" ELSE "1234"]

-----------------------------------------------------------------------------
(* Form values and safe_float *)

Num(n) == [k |-> "num", n |-> n]      \* a decimal numeral, n hundredths
Junk == [k |-> "junk", n |-> 0]       \* text float() rejects, e.g. "abc"
Empty == [k |-> "empty", n |-> 0]     \* the empty string
Absent == [k |-> "absent", n |-> 0]   \* the field is not in the form: None

\* float(val) if val else 0.0; 0.0 when float() raises
safe_float(val) == IF val.k = "num" THEN val.n ELSE 0

-----------------------------------------------------------------------------
(* Arithmetic *)

Abs(x) == IF x < 0 THEN -x ELSE x

RECURSIVE GCD(_, _)
GCD(a, b) == IF b = 0 THEN a ELSE GCD(b, a % b)

\* n / d rounded to the nearest integer, ties to even; d > 0
RoundHalfEven(n, d) ==
    LET q == n \div d
        r == n % d
    IN  IF 2 * r < d THEN q
        ELSE IF 2 * r > d THEN q + 1
        ELSE IF q % 2 = 0 THEN q ELSE q + 1

\* a * b / c rounded, c # 0
MulDivRound(a, b, c) ==
    LET g == GCD(Abs(b), Abs(c))
        bb == IF c < 0 THEN -(b \div g) ELSE b \div g
        cc == Abs(c) \div g
    IN  RoundHalfEven(a * bb, cc)

\* round(part / total * 100, 2), in hundredths of a percent
Pct(part, total) == MulDivRound(part, 10000, total)


-----------------------------------------------------------------------------
(* Inputs *)

\* request.form of submit and update: the fields the computations read
Form(lf, rf, lr, rr, t_lf, t_rf, t_lr, t_rr, fuel_input, fuel_unit) ==
    [lf |-> lf, rf |-> rf, lr |-> lr, rr |-> rr,
     t_lf |-> t_lf, t_rf |-> t_rf, t_lr |-> t_lr, t_rr |-> t_rr,
     fuel_input |-> fuel_input, fuel_unit |-> fuel_unit]

\* 500 lb on every corner, no turns, no fuel entered
FormBase == Form(Num(50000), Num(50000), Num(50000), Num(50000),
                 Empty, Empty, Empty, Empty, Empty, "lbs")
\* two turns into RF and LR (net 4), 5 gal of fuel, total 2000.25 lb
FormTurn == Form(Num(49025), Num(51000), Num(51000), Num(49000),
                 Absent, Num(200), Num(200), Junk, Num(500), "gal")
\* no net turns, 10 lb of fuel, rear 55 %
FormFuel == Form(Num(45000), Num(45000), Num(55000), Num(55000),
                 Num(100), Num(100), Num(100), Num(100), Num(1000), "lbs")
\* a negative and an unparseable corner weight
FormNeg == Form(Num(-10000), Num(15000), Num(15000), Junk,
                Empty, Empty, Empty, Empty, Num(40), "lbs")
\* nothing filled in
FormZero == Form(Empty, Empty, Empty, Junk, Empty, Empty, Empty, Empty, Absent, "gal")

Forms == {FormBase, FormTurn, FormFuel, FormNeg, FormZero}

Cars == {"1", "2"}
CarInputs == Cars \cup {" 1"}           \* car_num as typed
ScaleNums == {"1", "2"}
ScaleInputs == ScaleNums \cup {"None"}  \* "None": no scale_num in the request

\* (username, pin) pairs posted to /login; "None": the field is missing
LoginInputs == {<<"Admin", "0000">>, <<"Admin", "1234">>,
                <<"Ghost", "1234">>, <<"None", "0000">>}

Threads == {"T1", "T2"}

\* str.strip() on the car numbers of CarInputs
strip(s) == IF s = " 1" THEN "1" ELSE s

\* int() on the scale numbers the table can hold
int(s) == CASE s = "1" -> 1 [] s = "2" -> 2

-----------------------------------------------------------------------------
(* The table *)

NoRow == [car_num |-> "None"]
NoReq == [car_num |-> "None"]

RowsOf(tbl, car) == {i \in 1..Len(tbl) : tbl[i].car_num = car}

\* the SELECT without its WHERE clause
LatestRows_AnyCar(tbl, car) ==
    IF tbl = <<>> THEN {NoRow}
    ELSE {tbl[i] : i \in {j \in 1..Len(tbl) : \A k \in 1..Len(tbl) : tbl[k].date <= tbl[j].date}}

\* SELECT ... WHERE car_num = ? ORDER BY date DESC LIMIT 1, and the last row of
\* ORDER BY date ASC: a row of the car with the greatest date.  SQLite leaves
\* the order among equal dates open, so each such row is a possible answer.
LatestRows(tbl, car) ==
    LET mine == RowsOf(tbl, car)
    IN  IF mine = {} THEN {NoRow}
        ELSE {tbl[i] : i \in {j \in mine : \A k \in mine : tbl[k].date <= tbl[j].date}}

RECURSIVE Filter(_, _, _)
\* the rows of tbl that do not match (car, scale), in order
Filter(tbl, car, scale) ==
    IF tbl = <<>> THEN <<>>
    ELSE IF Head(tbl).car_num = car /\ Head(tbl).scale_num = scale
         THEN Filter(Tail(tbl), car, scale)
         ELSE <<Head(tbl)>> \o Filter(Tail(tbl), car, scale)

-----------------------------------------------------------------------------
(* The computations of submit and update *)

total_of(f) == safe_float(f.lf) + safe_float(f.rf) + safe_float(f.lr) + safe_float(f.rr)

\* round(((rf + lr) / total * 100), 2) if total > 0 else 0.0
cross_pct(f) ==
    IF total_of(f) > 0 THEN Pct(safe_float(f.rf) + safe_float(f.lr), total_of(f)) ELSE 0

\* round(((lf + lr) / total * 100), 2) if total else 0
left_pct(f) ==
    IF total_of(f) # 0 THEN Pct(safe_float(f.lf) + safe_float(f.lr), total_of(f)) ELSE 0

\* round(((lr + rr) / total * 100), 2) if total else 0
rear_pct(f) ==
    IF total_of(f) # 0 THEN Pct(safe_float(f.lr) + safe_float(f.rr), total_of(f)) ELSE 0

\* get_f('fuel_input') * (FUEL_DENSITY if fuel_unit == 'gal' else 1), in 1/1000 lb
fuel_lbs(f) == safe_float(f.fuel_input) * (IF f.fuel_unit = "gal" THEN FUEL_DENSITY ELSE 10)

net_turns(f) ==
    (safe_float(f.t_rf) + safe_float(f.t_lr)) - (safe_float(f.t_lf) + safe_float(f.t_rr))

\* A quotient before rounding: the value n / d
Q(n, d) == [n |-> n, d |-> d]

\* round(q, 4) and round(q, 5), in 1/10^4 and 1/10^5
round4(q) == MulDivRound(q.n, 10000, q.d)
round5(q) == MulDivRound(q.n, 100000, q.d)

\* the quotient recomputed over one turn when no turns were made
wt_per_turn_Recompute(f, last_run) ==
    IF last_run = NoRow THEN Q(0, 1)
    ELSE IF net_turns(f) # 0
         THEN Q(cross_pct(f) - last_run.cross_pct, net_turns(f))
         ELSE Q(cross_pct(f) - last_run.cross_pct, 100)

\* lines 220-228: the value of wt_per_turn before it is rounded
wt_per_turn(f, last_run) ==
    IF last_run = NoRow THEN Q(0, 1)
    ELSE IF net_turns(f) # 0
         THEN Q(cross_pct(f) - last_run.cross_pct, net_turns(f))
         ELSE Q(last_run.wt_per_turn, 10000)

\* lines 221-232: the value of fuel_sensitivity before it is rounded
fuel_sensitivity(f, last_run) ==
    IF last_run = NoRow THEN Q(0, 1)
    ELSE IF fuel_lbs(f) > 500 /\ net_turns(f) = 0
         THEN Q(10 * (rear_pct(f) - last_run.rear_pct), fuel_lbs(f))
         ELSE Q(last_run.fuel_sensitivity, 100000)

\* lines 234-249: the row submit inserts
data(car_num, scale_in, f, last_run, date, user_name) ==
    [date |-> date,
     car_num |-> car_num,
     scale_num |-> IF scale_in = "None" THEN "1" ELSE scale_in,
     created_by |-> IF user_name = "None" THEN "Unknown" ELSE user_name,
     lf |-> safe_float(f.lf), rf |-> safe_float(f.rf),
     lr |-> safe_float(f.lr), rr |-> safe_float(f.rr),
     t_lf |-> safe_float(f.t_lf), t_rf |-> safe_float(f.t_rf),
     t_lr |-> safe_float(f.t_lr), t_rr |-> safe_float(f.t_rr),
     total |-> 10 * RoundHalfEven(total_of(f), 10),
     cross_pct |-> cross_pct(f),
     left_pct |-> left_pct(f),
     rear_pct |-> rear_pct(f),
     fuel_lbs |-> RoundHalfEven(fuel_lbs(f), 100),
     wt_per_turn |-> round4(wt_per_turn(f, last_run)),
     fuel_sensitivity |-> round5(fuel_sensitivity(f, last_run))]

\* an UPDATE that also writes the sensitivities and the date
SetRow_Relearn(row, f) ==
    [row EXCEPT
        !.lf = safe_float(f.lf), !.rf = safe_float(f.rf),
        !.lr = safe_float(f.lr), !.rr = safe_float(f.rr),
        !.t_lf = safe_float(f.t_lf), !.t_rf = safe_float(f.t_rf),
        !.t_lr = safe_float(f.t_lr), !.t_rr = safe_float(f.t_rr),
        !.total = total_of(f),
        !.cross_pct = cross_pct(f),
        !.left_pct = left_pct(f),
        !.rear_pct = rear_pct(f),
        !.fuel_lbs = RoundHalfEven(fuel_lbs(f), 100),
        !.wt_per_turn = 0,
        !.fuel_sensitivity = 0]

\* lines 290-310: the UPDATE statement applied to one row
SetRow(row, f) ==
    [row EXCEPT
        !.lf = safe_float(f.lf), !.rf = safe_float(f.rf),
        !.lr = safe_float(f.lr), !.rr = safe_float(f.rr),
        !.t_lf = safe_float(f.t_lf), !.t_rf = safe_float(f.t_rf),
        !.t_lr = safe_float(f.t_lr), !.t_rr = safe_float(f.t_rr),
        !.total = total_of(f),
        !.cross_pct = cross_pct(f),
        !.left_pct = left_pct(f),
        !.rear_pct = rear_pct(f),
        !.fuel_lbs = RoundHalfEven(fuel_lbs(f), 100)]

RECURSIVE UpdateRows(_, _, _, _)
\* UPDATE setups SET ... WHERE car_num=? AND scale_num=?
UpdateRows(tbl, car, scale, f) ==
    IF tbl = <<>> THEN <<>>
    ELSE <<IF Head(tbl).car_num = car /\ Head(tbl).scale_num = scale
           THEN SetRow(Head(tbl), f) ELSE Head(tbl)>>
         \o UpdateRows(Tail(tbl), car, scale, f)

\* DELETE FROM setups WHERE car_num = ? AND scale_num = ?
DeleteRows(tbl, car, scale) == Filter(tbl, car, scale)

\* line 176: next_num
next_num(last_run) == IF last_run = NoRow THEN 1 ELSE int(last_run.scale_num) + 1

-----------------------------------------------------------------------------
(* Session and responses *)

NoSession == [logged_in |-> FALSE, user_name |-> "None", attempts |-> -1, lockout_until |-> 0]

\* session.get('attempts', 0)
Attempts(s) == IF s.attempts = -1 THEN 0 ELSE s.attempts

\* the last response: the handler that answered, and where it sends the browser
\* ("login", "index": a redirect; anything else: the page rendered)
R(op, to) == [op |-> op, to |-> to, car |-> "None", next_num |-> 0]

\* a before_request hook that lets every request through
require_login_Open(endpoint, s) == FALSE

\* before_request: TRUE when the request is answered by a redirect to login
require_login(endpoint, s) ==
    ~(endpoint = "login" \/ endpoint = "static") /\ ~s.logged_in

Denied(endpoint) ==
    /\ require_login(endpoint, session)
    /\ resp' = R(endpoint, "login")
    /\ UNCHANGED <<store, now, session, pending>>


-----------------------------------------------------------------------------
(* Handlers *)

Init ==
    /\ store = <<>>
    /\ now = 1
    /\ session = NoSession
    /\ pending = [t \in Threads |-> NoReq]
    /\ resp = R("none", "none")

\* lines 167-186
index(car) ==
    \/ Denied("index")
    \/ /\ ~require_login("index", session)
       /\ \E last_run \in LatestRows(store, car) :
             resp' = [op |-> "index", to |-> "page", car |-> car,
                      next_num |-> next_num(last_run)]
       /\ UNCHANGED <<store, now, session, pending>>

\* lines 202-257, when nothing runs between the SELECT and the INSERT
submit(car_in, scale_in, f) ==
    \/ Denied("submit")
    \/ /\ ~require_login("submit", session)
       /\ Len(store) < MaxRows
       /\ \E last_run \in LatestRows(store, strip(car_in)) :
             store' = Append(store, data(strip(car_in), scale_in, f, last_run,
                                         now, session.user_name))
       /\ resp' = R("submit", "index")
       /\ UNCHANGED <<now, session, pending>>

\* lines 202-218: submit up to the SELECT of last_run
submit_read(t, car_in) ==
    /\ pending[t] = NoReq
    /\ \/ Denied("submit")
       \/ /\ ~require_login("submit", session)
          /\ \E last_run \in LatestRows(store, strip(car_in)) :
                pending' = [pending EXCEPT ![t] =
                              [car_num |-> strip(car_in),
                               user_name |-> session.user_name,
                               last_run |-> last_run]]
          /\ UNCHANGED <<store, now, session, resp>>

\* lines 220-257: submit from the SELECT on
submit_insert(t, scale_in, f) ==
    /\ pending[t] # NoReq
    /\ Len(store) < MaxRows
    /\ store' = Append(store, data(pending[t].car_num, scale_in, f,
                                   pending[t].last_run, now, pending[t].user_name))
    /\ pending' = [pending EXCEPT ![t] = NoReq]
    /\ resp' = R("submit", "index")
    /\ UNCHANGED <<now, session>>

\* lines 259-264
delete(car, scale) ==
    \/ Denied("delete")
    \/ /\ ~require_login("delete", session)
       /\ store' = DeleteRows(store, car, scale)
       /\ resp' = R("delete", "index")
       /\ UNCHANGED <<now, session, pending>>

\* lines 266-317
update(car_in, scale_in, f) ==
    \/ Denied("update")
    \/ /\ ~require_login("update", session)
       /\ store' = UpdateRows(store, car_in, scale_in, f)
       /\ resp' = R("update", "index")
       /\ UNCHANGED <<now, session, pending>>

\* line 128: the lockout is still running
Locked(s) == s.lockout_until # 0 /\ now < s.lockout_until

\* lines 131-133: a lockout that has run out is dropped with the counter
Expire(s) ==
    IF s.lockout_until # 0 THEN [s EXCEPT !.lockout_until = 0, !.attempts = 0] ELSE s

\* line 142
Valid(username, pin) == username \in DOMAIN get_users /\ get_users[username] = pin

\* the comparison off by one
LockoutReached_Late(attempts) == attempts > MAX_ATTEMPTS

\* line 151
LockoutReached(attempts) == attempts >= MAX_ATTEMPTS

\* lines 123-158, GET
login_get ==
    /\ \/ /\ Locked(session)
          /\ session' = session
          /\ resp' = R("login", "locked")
       \/ /\ ~Locked(session)
          /\ session' = Expire(session)
          /\ resp' = R("login", "form")
    /\ UNCHANGED <<store, now, pending>>

\* lines 123-158, POST
login_post(username, pin) ==
    /\ \/ /\ Locked(session)
          /\ session' = session
          /\ resp' = R("login", "locked")
       \/ /\ ~Locked(session)
          /\ LET s == Expire(session)
                 attempts == Attempts(s) + 1
             IN  IF Valid(username, pin)
                 THEN /\ session' = [s EXCEPT !.logged_in = TRUE,
                                              !.user_name = username,
                                              !.attempts = 0]
                      /\ resp' = R("login", "index")
                 ELSE IF LockoutReached(attempts)
                 THEN /\ session' = [s EXCEPT !.attempts = attempts,
                                              !.lockout_until = now + LOCKOUT_TIME]
                      /\ resp' = R("login", "lockout")
                 ELSE /\ session' = [s EXCEPT !.attempts = attempts]
                      /\ resp' = R("login", "incorrect")
    /\ UNCHANGED <<store, now, pending>>

\* lines 160-163
logout ==
    \/ Denied("logout")
    \/ /\ ~require_login("logout", session)
       /\ session' = NoSession
       /\ resp' = R("logout", "login")
       /\ UNCHANGED <<store, now, pending>>

\* d minutes pass
Tick(d, last) ==
    /\ now + d <= last
    /\ now' = now + d
    /\ UNCHANGED <<store, session, pending, resp>>

-----------------------------------------------------------------------------
(* Specifications *)

\* Every handler of the table, one request at a time, after a login with a valid PIN.
Next ==
    \/ \E c \in Cars : index(c)
    \/ \E c \in CarInputs, n \in ScaleInputs, f \in {FormBase, FormNeg, FormZero} : submit(c, n, f)
    \/ \E c \in CarInputs, n \in ScaleNums : delete(c, n)
    \/ \E c \in Cars, n \in ScaleNums : update(c, n, FormNeg)
    \/ login_post("Admin", "0000")
    \/ logout
    \/ Tick(1, MaxMinute)

Spec == Init /\ [][Next]_vars

\* Two request threads: other requests run between a submit's SELECT and its INSERT.
NextConc ==
    \/ \E t \in Threads, c \in Cars : submit_read(t, c)
    \/ \E t \in Threads, f \in {FormBase, FormTurn} : submit_insert(t, "None", f)
    \/ \E c \in Cars : delete(c, "1")
    \/ login_post("Admin", "0000")
    \/ Tick(1, MaxMinute)

SpecConc == Init /\ [][NextConc]_vars

\* The sensitivities: submits of the measuring forms for two cars, with deletes
\* and an update between them.
NextSens ==
    \/ \E n \in ScaleNums, f \in {FormBase, FormTurn, FormFuel} : submit("1", n, f)
    \/ \E n \in ScaleNums, f \in {FormBase, FormTurn} : submit("2", n, f)
    \/ \E c \in Cars, n \in ScaleNums : delete(c, n)
    \/ update("1", "1", FormBase)
    \/ login_post("Admin", "0000")
    \/ Tick(1, MaxMinute)

SpecSens == Init /\ [][NextSens]_vars

\* Updates of rows that carry learned sensitivities.
NextUpdate ==
    \/ \E c \in Cars, n \in ScaleNums, f \in {FormBase, FormTurn} : submit(c, n, f)
    \/ \E c \in CarInputs, n \in ScaleNums : update(c, n, FormFuel)
    \/ login_post("Admin", "0000")
    \/ Tick(1, MaxMinute)

SpecUpdate == Init /\ [][NextUpdate]_vars

\* The login gate: every handler, with right and wrong PINs and logouts.
NextGate ==
    \/ index("1")
    \/ \E f \in {FormBase, FormTurn} : submit("1", "None", f)
    \/ delete("1", "1")
    \/ update("1", "1", FormFuel)
    \/ login_get
    \/ \E up \in LoginInputs : login_post(up[1], up[2])
    \/ logout
    \/ Tick(1, MaxMinute)

SpecGate == Init /\ [][NextGate]_vars

\* The login form alone, over a clock long enough for a lockout to run out.
NextAuth ==
    \/ login_get
    \/ \E up \in LoginInputs : login_post(up[1], up[2])
    \/ logout
    \/ \E d \in {1, LOCKOUT_TIME} : Tick(d, MaxClock)

SpecAuth == Init /\ [][NextAuth]_vars

-----------------------------------------------------------------------------
(* Claims *)

\* C1: no two rows of the same car carry the same sequence number.
C1_UniqueKey ==
    \A i, j \in 1..Len(store) :
        (store[i].car_num = store[j].car_num
            /\ int(store[i].scale_num) = int(store[j].scale_num)) => i = j

\* C2: a delete that is let through removes exactly one row, the one that
\* matches (car, scale), and leaves the other rows as they were; when no row
\* matches, the table is unchanged.
C2_DeleteExactlyOne ==
    [][\A c \in CarInputs, n \in ScaleNums :
        (~require_login("delete", session) /\ delete(c, n)) =>
            IF \E i \in 1..Len(store) : store[i].car_num = c /\ store[i].scale_num = n
            THEN \E i \in 1..Len(store) :
                    /\ store[i].car_num = c /\ store[i].scale_num = n
                    /\ store' = SubSeq(store, 1, i - 1) \o SubSeq(store, i + 1, Len(store))
            ELSE store' = store]_vars

\* C3: an update that is let through keeps the number and the order of the
\* rows, leaves every row that does not match (car, scale) as it was, and in a
\* row that matches leaves date, car_num, scale_num, created_by, wt_per_turn
\* and fuel_sensitivity as they were.
C3_UpdateFrame ==
    [][(resp'.op = "update" /\ resp'.to = "index") =>
        \A c \in CarInputs, n \in ScaleInputs, f \in {FormFuel, FormNeg} :
            update(c, n, f) =>
                /\ Len(store') = Len(store)
                /\ \A i \in 1..Len(store) :
                      IF store[i].car_num = c /\ store[i].scale_num = n
                      THEN /\ store'[i].wt_per_turn = store[i].wt_per_turn
                           /\ store'[i].fuel_sensitivity = store[i].fuel_sensitivity
                           /\ store'[i].date = store[i].date
                           /\ store'[i].car_num = store[i].car_num
                           /\ store'[i].scale_num = store[i].scale_num
                           /\ store'[i].created_by = store[i].created_by
                      ELSE store'[i] = store[i]]_vars

\* C3, witness: an update has just rewritten the weights of a row that carries
\* a learned wt_per_turn and is older than the clock, beside another row of
\* the same car.
C3_Witness ==
    /\ resp.op = "update"
    /\ \E i, j \in 1..Len(store) :
          /\ i # j
          /\ store[i].car_num = store[j].car_num
          /\ store[i].lf = safe_float(FormFuel.lf)
          /\ store[i].wt_per_turn # 0
          /\ store[i].date < now
          /\ store[j].lf # safe_float(FormFuel.lf)

\* C4: the next_num an index page shows for a car is 1 + the greatest sequence
\* number among the car's rows, and 1 when the car has no row.
C4_NextNumIsMaxPlusOne ==
    (resp.op = "index" /\ resp.to = "page") =>
        LET mine == RowsOf(store, resp.car)
        IN  IF mine = {} THEN resp.next_num = 1
            ELSE \E i \in mine :
                    /\ \A j \in mine : int(store[j].scale_num) <= int(store[i].scale_num)
                    /\ resp.next_num = int(store[i].scale_num) + 1

\* C5: the last_run a submit computes against is, when its row is inserted,
\* the row of the same car that was committed last (no row, when the car has
\* none).
C5_PreviousIsPreceding ==
    [][\A t \in Threads, n \in ScaleInputs, f \in Forms :
        submit_insert(t, n, f) =>
            LET mine == RowsOf(store, pending[t].car_num)
            IN  IF mine = {} THEN pending[t].last_run = NoRow
                ELSE \E i \in mine :
                        /\ \A j \in mine : j <= i
                        /\ pending[t].last_run = store[i]]_vars

\* C6: a submit that finds a previous row stores the previous wt_per_turn when
\* net_turns is 0, and the previous fuel_sensitivity when net_turns is not 0.
C6_CarryForward ==
    [][(resp'.op = "submit" /\ resp'.to = "index" /\ Len(store') = Len(store) + 1) =>
        \A c \in Cars, n \in ScaleNums, f \in {FormBase, FormTurn, FormFuel} :
            (store'[Len(store')].car_num = c /\ store'[Len(store')].scale_num = n
                /\ submit(c, n, f)) =>
                \E last_run \in LatestRows(store, strip(c)) :
                    /\ store' = Append(store, data(strip(c), n, f, last_run, now,
                                                   session.user_name))
                    /\ last_run # NoRow =>
                          /\ net_turns(f) = 0 =>
                                store'[Len(store')].wt_per_turn = last_run.wt_per_turn
                          /\ net_turns(f) # 0 =>
                                store'[Len(store')].fuel_sensitivity
                                    = last_run.fuel_sensitivity]_vars

\* C6, witness: a submit has just added a second row without net turns beside
\* a row without net turns, both with the same learned wt_per_turn (the row
\* that learned it is deleted), the older one with a learned fuel_sensitivity.
C6_Witness ==
    /\ resp.op = "submit"
    /\ Len(store) = 2
    /\ store[1].car_num = store[2].car_num
    /\ store[1].date < store[2].date
    /\ store[1].t_rf + store[1].t_lr = store[1].t_lf + store[1].t_rr
    /\ store[2].t_rf + store[2].t_lr = store[2].t_lf + store[2].t_rr
    /\ store[1].wt_per_turn # 0
    /\ store[2].wt_per_turn = store[1].wt_per_turn
    /\ store[1].fuel_sensitivity # 0

\* C7: a submit for a car that has no row stores wt_per_turn 0 and
\* fuel_sensitivity 0.
C7_FirstRun ==
    [][(resp'.op = "submit" /\ resp'.to = "index" /\ Len(store') = Len(store) + 1) =>
        \A c \in Cars, n \in ScaleNums, f \in {FormBase, FormTurn, FormFuel} :
            (RowsOf(store, c) = {} /\ store'[Len(store')].car_num = c
                /\ store'[Len(store')].scale_num = n /\ submit(c, n, f)) =>
                    /\ store'[Len(store')].wt_per_turn = 0
                    /\ store'[Len(store')].fuel_sensitivity = 0]_vars

\* C7, witness: a submit with net turns and fuel has just added the only row
\* of its car, with both sensitivities 0, while the other car has a row with a
\* learned wt_per_turn.
C7_Witness ==
    /\ resp.op = "submit"
    /\ Len(store) = 2
    /\ store[1].car_num # store[2].car_num
    /\ store[1].wt_per_turn # 0
    /\ store[2].t_rf + store[2].t_lr # store[2].t_lf + store[2].t_rr
    /\ store[2].fuel_lbs > 5
    /\ store[2].wt_per_turn = 0
    /\ store[2].fuel_sensitivity = 0

\* C8: every row has corner weights >= 0 and cross, left and rear percentages
\* between 0 and 100, all three 0 when the total is 0.
C8_WeightsAndPercentagesInRange ==
    \A i \in 1..Len(store) :
        LET r == store[i]
        IN  /\ r.lf >= 0 /\ r.rf >= 0 /\ r.lr >= 0 /\ r.rr >= 0
            /\ r.cross_pct \in 0..10000
            /\ r.left_pct \in 0..10000
            /\ r.rear_pct \in 0..10000
            /\ r.total = 0 => (r.cross_pct = 0 /\ r.left_pct = 0 /\ r.rear_pct = 0)

\* C9: while the session is not logged in no request changes the table, and a
\* submit, update or delete is answered by the redirect to login; the session
\* becomes logged in only by a POST to login whose username is in the user
\* directory with the PIN that was posted.
C9_LoginGate ==
    [][/\ ~session.logged_in => store' = store
       /\ \A c \in CarInputs, n \in ScaleInputs, f \in Forms :
             (~session.logged_in /\ (submit(c, n, f) \/ update(c, n, f) \/ delete(c, n))) =>
                 (store' = store /\ resp'.to = "login")
       /\ (~session.logged_in /\ session'.logged_in) =>
             \E up \in LoginInputs :
                 /\ login_post(up[1], up[2])
                 /\ up[1] \in DOMAIN get_users
                 /\ get_users[up[1]] = up[2]]_vars

\* C9, witness: after a logout and a wrong PIN, a submit has just been
\* answered by the redirect to login while the table holds a row.
C9_Witness ==
    /\ resp = R("submit", "login")
    /\ ~session.logged_in
    /\ session.attempts > 0
    /\ Len(store) > 0

\* C10: the failed-attempt counter is at most MAX_ATTEMPTS while no lockout is
\* set.  A failed POST to login that is not locked out adds one to the
\* counter, and the one that brings it to MAX_ATTEMPTS sets lockout_until to
\* now + LOCKOUT_TIME.  While now < lockout_until a login request, whatever
\* its PIN, leaves the session as it is.  The first login request at or after
\* lockout_until drops the lockout and counts from 0: the counter is 0 after
\* it, or 1 when it is itself a failed POST.  A POST with a valid PIN that is
\* not locked out logs in and sets the counter to 0.
C10_Lockout ==
    /\ [](session.lockout_until = 0 => Attempts(session) <= MAX_ATTEMPTS)
    /\ [][\A up \in LoginInputs :
            LET post == login_post(up[1], up[2])
                good == up[1] \in DOMAIN get_users /\ get_users[up[1]] = up[2]
                locked == session.lockout_until # 0 /\ now < session.lockout_until
                before == IF session.lockout_until # 0 THEN 0 ELSE Attempts(session)
            IN  /\ (post /\ ~locked /\ ~good) =>
                      /\ session'.attempts = before + 1
                      /\ session'.logged_in = session.logged_in
                      /\ IF before + 1 = MAX_ATTEMPTS
                         THEN session'.lockout_until = now + LOCKOUT_TIME
                         ELSE session'.lockout_until = 0
                /\ ((post \/ login_get) /\ locked) => session' = session
                /\ ((post \/ login_get) /\ session.lockout_until # 0 /\ ~locked) =>
                      /\ session'.lockout_until = 0
                      /\ session'.attempts = IF post /\ ~good THEN 1 ELSE 0
                /\ (post /\ ~locked /\ good) =>
                      /\ session'.logged_in
                      /\ session'.attempts = 0
                      /\ session'.lockout_until = 0]_vars

\* C10, witness: a session that never logged in was locked out, and a login
\* request after the lockout ran out has dropped it and reset the counter.
C10_Witness ==
    /\ ~session.logged_in
    /\ session.user_name = "None"
    /\ session.attempts = 0
    /\ session.lockout_until = 0
    /\ now > LOCKOUT_TIME

=============================================================================
